---- MODULE Spec2Model ----
(***************************************************************************)
(* Model of app.py, a Streamlit page.  Streamlit runs the script from the  *)
(* top on every render of a session; the only state that survives from one *)
(* run to the next is st.session_state, the widget values and the          *)
(* st.cache_data memo.  One action models one section of the script, pc is *)
(* the section the running script is at.                                   *)
(*                                                                         *)
(* Values in pounds billions are kept in tenths (8.7 is 87), so that the   *)
(* order of the decimals of the source is the order of the integers here.  *)
(* A location name is modelled by a natural number; the order of the       *)
(* numbers is the sort order of the names.                                 *)
(***************************************************************************)
EXTENDS Integers, Sequences, FiniteSets, TLC

VARIABLES
    files,            \* the files present in the working directory
    data_csv,         \* what pd.read_csv("data.csv") yields: [readable, rows]
    quicksort,        \* how this build's numpy quicksort orders equal keys
    cache_data,       \* memo of @st.cache_data load_data: <<>> or <<rows>>
    session_state,    \* st.session_state: a function on the keys that exist
    station_selector, \* value of the st.radio widget
    clicked,          \* the button whose click triggered the running script
    pc,               \* section the running script is at, or "idle"
    status,           \* how the last script run ended, or "running"
    df_incidents,     \* script variable df_incidents
    df_imports,       \* script variable df_imports
    location_totals,  \* script variable location_totals
    top_locations,    \* script variable top_locations
    df_filtered,      \* script variable df_filtered
    page,             \* the elements the run has put on the page
    reveals,          \* history: handled reveal clicks (saturates at MaxReveals)
    first_reveal,     \* history: the table built by the run after the first reveal
    run_start         \* history: what started the running script, the flag it found

vars == << files, data_csv, quicksort, cache_data, session_state,
           station_selector, clicked, pc, status, df_incidents, df_imports,
           location_totals, top_locations, df_filtered, page, reveals,
           first_reveal, run_start >>

-----------------------------------------------------------------------------
(* Bounds of the model *)

MaxMissing == 1     \* files missing from the working directory
MaxBulk == 21       \* rows of the generated block of an incident table
MaxTail == 1        \* free rows after the generated block
MaxCount == 2       \* largest Count of a free row
MaxReveals == 2     \* saturation of the reveal history counter

(* Program constants *)

TopN == 20

-----------------------------------------------------------------------------
(* Sequences *)

Range(s) == { s[i] : i \in 1..Len(s) }

Reverse(s) == [ i \in 1..Len(s) |-> s[Len(s) + 1 - i] ]

RECURSIVE SeqSum(_)
SeqSum(s) == IF s = << >> THEN 0 ELSE Head(s) + SeqSum(Tail(s))

\* s[indexer[1]], s[indexer[2]], ...  (DataFrame.take / Series.take)
take(s, indexer) == [ k \in 1..Len(indexer) |-> s[indexer[k]] ]

-----------------------------------------------------------------------------
(* pandas sort_values: nargsort over numpy argsort(kind="quicksort")        *)

QuicksortKinds == { "keeps_ties", "swaps_ties" }

\* numpy argsort, kind="quicksort": the positions of items in ascending
\* order of item.  quicksort is not a stable sort: what it does with equal
\* items depends on the build (insertion sort on short arrays, a SIMD
\* sorting network where the CPU has one); kind is the build's behaviour.
argsort(items, kind) ==
    LET n == Len(items)
        Before(j, i) ==
            \/ items[j] < items[i]
            \/ /\ items[j] = items[i]
               /\ IF kind = "keeps_ties" THEN j < i ELSE j > i
    IN  [ k \in 1..n |->
            CHOOSE i \in 1..n : Cardinality({ j \in 1..n : Before(j, i) }) = k - 1 ]

\* (mutant: the descending case is forgotten)
nargsort_mutant(items, ascending, kind) == argsort(items, kind)

\* pandas.core.sorting.nargsort: a descending sort reverses the items,
\* sorts ascending and reverses the result.
nargsort(items, ascending, kind) ==
    LET n == Len(items)
        its == IF ascending THEN items ELSE Reverse(items)
        idx == IF ascending THEN [ i \in 1..n |-> i ] ELSE [ i \in 1..n |-> n + 1 - i ]
        srt == argsort(its, kind)
        indexer == [ k \in 1..n |-> idx[srt[k]] ]
    IN  IF ascending THEN indexer ELSE Reverse(indexer)

\* (mutant: the sorted copy is thrown away)
sort_values_Value_mutant(df, ascending, kind) == df

\* DataFrame.sort_values("Value", ascending=...)
sort_values_Value(df, ascending, kind) ==
    take(df, nargsort([ i \in 1..Len(df) |-> df[i].Value ], ascending, kind))

\* Series.sort_values(ascending=...) of a Series of Count indexed by Location
sort_values_Count(ser, ascending, kind) ==
    take(ser, nargsort([ i \in 1..Len(ser) |-> ser[i].Count ], ascending, kind))

-----------------------------------------------------------------------------
(* Section 7: the comparative table *)

import_data ==
    << [Commodity |-> "Mineral Fuels",         Value |-> 87, Type |-> "Legal"],
       [Commodity |-> "Mechanical Appliances", Value |-> 64, Type |-> "Legal"],
       [Commodity |-> "Electronic Equipment",  Value |-> 53, Type |-> "Legal"],
       [Commodity |-> "Precious Metals",       Value |-> 42, Type |-> "Legal"],
       [Commodity |-> "Motor Vehicles",        Value |-> 41, Type |-> "Legal"],
       [Commodity |-> "Pharmaceuticals",       Value |-> 20, Type |-> "Legal"],
       [Commodity |-> "Other Products",        Value |-> 16, Type |-> "Legal"],
       [Commodity |-> "Plastics",              Value |-> 15, Type |-> "Legal"],
       [Commodity |-> "Measuring Devices",     Value |-> 13, Type |-> "Legal"],
       [Commodity |-> "Knitwear",              Value |-> 13, Type |-> "Legal"] >>

new_row == << [Commodity |-> "Illicit Drugs", Value |-> 94, Type |-> "Illegal"] >>

\* (mutant: the second frame is not appended)
concat_mutant(a, b) == a

\* pd.concat([a, b], ignore_index=True)
concat(a, b) == a \o b

\* (mutant: the row is appended to a table that already holds it)
build_df_imports_mutant(revealed, kind) ==
    LET base == import_data
        df == IF revealed THEN (base \o new_row) \o new_row ELSE base
    IN  sort_values_Value(df, FALSE, kind)

\* lines 763-772: the table the script builds from the flag
build_df_imports(revealed, kind) ==
    LET base == import_data
        df == IF revealed THEN concat(base, new_row) ELSE base
    IN  sort_values_Value(df, FALSE, kind)

-----------------------------------------------------------------------------
(* Section 8: the incident analysis *)

\* (mutant: the records of a location are counted, not their Count summed)
groupby_Location_Count_sum_mutant(df) ==
    LET keys == { df[i].Location : i \in 1..Len(df) }
        key(k) == CHOOSE x \in keys : Cardinality({ y \in keys : y < x }) = k - 1
        counts(x) == [ i \in 1..Len(df) |-> IF df[i].Location = x THEN 1 ELSE 0 ]
    IN  [ k \in 1..Cardinality(keys) |->
            [Location |-> key(k), Count |-> SeqSum(counts(key(k)))] ]

\* df.groupby("Location")["Count"].sum(): one entry per distinct Location,
\* in ascending order of the key (groupby sorts the group keys)
groupby_Location_Count_sum(df) ==
    LET keys == { df[i].Location : i \in 1..Len(df) }
        key(k) == CHOOSE x \in keys : Cardinality({ y \in keys : y < x }) = k - 1
        counts(x) == [ i \in 1..Len(df) |-> IF df[i].Location = x THEN df[i].Count ELSE 0 ]
    IN  [ k \in 1..Cardinality(keys) |->
            [Location |-> key(k), Count |-> SeqSum(counts(key(k)))] ]

\* (mutant: one entry too many)
tail_mutant(ser, n) ==
    IF Len(ser) <= n THEN ser ELSE SubSeq(ser, Len(ser) - n, Len(ser))

\* Series.tail(n)
tail(ser, n) ==
    IF Len(ser) <= n THEN ser ELSE SubSeq(ser, Len(ser) - n + 1, Len(ser))

\* Series.index.tolist()
index_tolist(ser) == [ k \in 1..Len(ser) |-> ser[k].Location ]

\* (mutant: the mask is inverted)
filter_Location_isin_mutant(df, values) ==
    SelectSeq(df, LAMBDA r : r.Location \notin Range(values))

\* df[df["Location"].isin(values)]
filter_Location_isin(df, values) ==
    SelectSeq(df, LAMBDA r : r.Location \in Range(values))

\* df["Count"].sum()
Count_sum(df) == SeqSum([ i \in 1..Len(df) |-> df[i].Count ])

\* (mutant: the frame is never taken to be empty)
empty_mutant(df) == FALSE

\* line 896: df_incidents.empty
empty(df) == Len(df) = 0

\* the columns of a frame; the header of the table with no rows has all three
columns(df) == IF Len(df) = 0 THEN { "Location", "Category", "Count" } ELSE DOMAIN df[1]

\* line 928: the title of the chart
\* (mutant: the sum is taken over the filtered frame)
title_total_mutant(df, filtered) == Count_sum(filtered)
title_total(df, filtered) == Count_sum(df)

\* (mutant: sorted descending, so that the tail holds the smallest)
compute_location_totals_mutant(df, kind) ==
    sort_values_Count(groupby_Location_Count_sum(df), FALSE, kind)

\* line 899
compute_location_totals(df, kind) ==
    sort_values_Count(groupby_Location_Count_sum(df), TRUE, kind)

\* (mutant: one location short)
compute_top_locations_mutant(totals) == index_tolist(tail(totals, TopN - 1))

\* line 902
compute_top_locations(totals) == index_tolist(tail(totals, TopN))

-----------------------------------------------------------------------------
(* The working directory and the tables a run can load *)

Images == { "1.png", "2.png", "3.png", "4.png", "5.png", "6.png", "7.png", "8.png" }

AllFiles == { "logo.png", "ju.png", "data.csv" } \cup Images

Stations == { "St Pancras International", "Kings Cross Station", "Camden Town Station" }

Categories == << "Noise", "Youths", "Smoking" >>

Unreadable == [readable |-> FALSE, rows |-> << >>]

Table(rows) == [readable |-> TRUE, rows |-> rows]

\* a block of n rows, one per location: the locations in ascending or in
\* descending order of name, the counts all equal, cycling or all different
Bulk(n, dir, pat) ==
    [ i \in 1..n |->
        [Location |-> IF dir = "asc" THEN i ELSE n + 1 - i,
         Category |-> Categories[(i % 3) + 1],
         Count    |-> CASE pat = "flat"   -> 1
                        [] pat = "cyclic" -> i % 3
                        [] pat = "rising" -> i] ]

\* a free row: one more record of the first location or the one record of
\* a location the block does not have
TailRows ==
    [Location : { 1, MaxBulk + 1 },
     Category : { "Smoking" },
     Count    : 0..MaxCount]

RECURSIVE SeqsUpTo(_, _)
SeqsUpTo(S, n) ==
    IF n = 0 THEN { << >> }
    ELSE LET shorter == SeqsUpTo(S, n - 1)
         IN  shorter \cup { Append(s, x) : s \in shorter, x \in S }

\* the incident tables the aggregation is checked on
Inputs ==
    { Bulk(n, dir, pat) \o t :
        n \in 0..MaxBulk, dir \in { "asc", "desc" },
        pat \in { "flat", "cyclic", "rising" }, t \in SeqsUpTo(TailRows, MaxTail) }

Example ==
    << [Location |-> 1, Category |-> "Noise",   Count |-> 3],
       [Location |-> 2, Category |-> "Youths",  Count |-> 10],
       [Location |-> 1, Category |-> "Smoking", Count |-> 2] >>

\* the rows of a file that has no column col
Without(rows, col) ==
    [ i \in 1..Len(rows) |-> [ c \in (DOMAIN rows[i]) \ { col } |-> rows[i][c] ] ]

\* the contents of data.csv a session is checked on: a file that cannot be
\* parsed, a header with no rows, well-formed tables, and tables that lack
\* one of the columns the script reads
SessionTables ==
    { Unreadable, Table(<< >>), Table(Example), Table(Bulk(MaxBulk, "desc", "cyclic")) }
    \cup { Table(Without(Example, col)) : col \in { "Location", "Category", "Count" } }

-----------------------------------------------------------------------------
(* The script *)

flag == "reveal_drug_market"

\* line 747
initial_flag == FALSE

\* line 840
revealed_flag == TRUE

\* line 844
\* (mutant: the reset writes the value of the reveal)
reset_flag_mutant == TRUE
reset_flag == FALSE

BlankPage ==
    [alerts |-> {}, radio |-> FALSE, chart |-> << >>, buttons |-> {},
     incidents |-> << >>]

\* a fresh run of the script, started by cause in a session whose state
\* is ss: its variables do not exist yet, the page is redrawn from the top
StartRun(click, cause, ss) ==
    /\ run_start' = [cause |-> cause,
                     flag  |-> IF flag \in DOMAIN ss THEN << ss[flag] >> ELSE << >>]
    /\ pc' = "page_config"
    /\ status' = "running"
    /\ clicked' = click
    /\ df_incidents' = << >>
    /\ df_imports' = << >>
    /\ location_totals' = << >>
    /\ top_locations' = << >>
    /\ df_filtered' = << >>
    /\ page' = BlankPage

\* the run ends: st.stop(), an uncaught exception, or the end of the script
EndRun(how, alert) ==
    /\ pc' = "idle"
    /\ status' = how
    /\ clicked' = "none"
    /\ page' = [page EXCEPT !.alerts = @ \cup alert]

Init ==
    /\ files \in { AllFiles \ m : m \in { x \in SUBSET AllFiles : Cardinality(x) <= MaxMissing } }
    /\ data_csv \in IF "data.csv" \in files THEN SessionTables ELSE { Unreadable }
    /\ quicksort \in QuicksortKinds
    /\ cache_data = << >>
    /\ session_state = << >>
    /\ station_selector = "St Pancras International"
    /\ clicked = "none"
    /\ pc = "page_config"
    /\ status = "running"
    /\ df_incidents = << >>
    /\ df_imports = << >>
    /\ location_totals = << >>
    /\ top_locations = << >>
    /\ df_filtered = << >>
    /\ page = BlankPage
    /\ reveals = 0
    /\ first_reveal = << >>
    /\ run_start = [cause |-> "session", flag |-> << >>]

\* line 14: Image.open("logo.png") raises when the file is missing
PageConfig ==
    /\ pc = "page_config"
    /\ IF "logo.png" \in files
       THEN /\ pc' = "integrity"
            /\ UNCHANGED << status, clicked, page >>
       ELSE EndRun("exception", { "exception" })
    /\ UNCHANGED << files, data_csv, quicksort, cache_data, session_state,
                    station_selector, df_incidents, df_imports, location_totals,
                    top_locations, df_filtered, reveals, first_reveal, run_start >>

\* (mutant: the check of the data file is skipped)
missing_data_mutant(fs) == {}

\* line 106
missing_data(fs) == { "data.csv" } \ fs

\* lines 96-117
check_system_integrity ==
    /\ pc = "integrity"
    /\ IF missing_data(files) # {}
       THEN EndRun("stopped", { "data_missing" })
       ELSE /\ pc' = "load_data"
            /\ page' = [page EXCEPT !.alerts =
                            @ \cup IF Images \subseteq files THEN {} ELSE { "asset_warning" }]
            /\ UNCHANGED << status, clicked >>
    /\ UNCHANGED << files, data_csv, quicksort, cache_data, session_state,
                    station_selector, df_incidents, df_imports, location_totals,
                    top_locations, df_filtered, reveals, first_reveal, run_start >>

\* (mutant: the except branch returns an empty frame instead of stopping)
read_csv_returns_mutant(fs, csv) == TRUE

\* line 142: pd.read_csv("data.csv") returns a frame; it raises when the
\* file is missing or cannot be parsed
read_csv_returns(fs, csv) == "data.csv" \in fs /\ csv.readable

\* lines 136-152: the memo answers when it holds a value; st.stop() in the
\* except branch ends the run and nothing is memoised
load_data ==
    /\ pc = "load_data"
    /\ IF cache_data # << >>
       THEN /\ df_incidents' = cache_data[1]
            /\ pc' = "title"
            /\ UNCHANGED << cache_data, status, clicked, page >>
       ELSE IF read_csv_returns(files, data_csv)
            THEN /\ df_incidents' = data_csv.rows
                 /\ cache_data' = << data_csv.rows >>
                 /\ pc' = "title"
                 /\ UNCHANGED << status, clicked, page >>
            ELSE /\ EndRun("stopped", { "load_error" })
                 /\ UNCHANGED << df_incidents, cache_data >>
    /\ UNCHANGED << files, data_csv, quicksort, session_state, station_selector,
                    df_imports, location_totals, top_locations, df_filtered,
                    reveals, first_reveal, run_start >>

\* st.image(path) of a missing file raises
ImageSection(here, path, next) ==
    /\ pc = here
    /\ IF path \in files
       THEN /\ pc' = next
            /\ UNCHANGED << status, clicked, page >>
       ELSE EndRun("exception", { "exception" })
    /\ UNCHANGED << files, data_csv, quicksort, cache_data, session_state,
                    station_selector, df_incidents, df_imports, location_totals,
                    top_locations, df_filtered, reveals, first_reveal, run_start >>

\* line 334
TitleSlide == ImageSection("title", "8.png", "station_map")

station_image ==
    CASE station_selector = "St Pancras International" -> "1.png"
      [] station_selector = "Kings Cross Station"      -> "2.png"
      [] station_selector = "Camden Town Station"      -> "3.png"

\* lines 451-553: the map, the radio, the picture of the selected station
StationMap ==
    /\ pc = "station_map"
    /\ IF "5.png" \notin files
       THEN EndRun("exception", { "exception" })
       ELSE IF station_image \notin files
            THEN /\ pc' = "idle"
                 /\ status' = "exception"
                 /\ clicked' = "none"
                 /\ page' = [page EXCEPT !.radio = TRUE, !.alerts = @ \cup { "exception" }]
            ELSE /\ pc' = "market"
                 /\ page' = [page EXCEPT !.radio = TRUE]
                 /\ UNCHANGED << status, clicked >>
    /\ UNCHANGED << files, data_csv, quicksort, cache_data, session_state,
                    station_selector, df_incidents, df_imports, location_totals,
                    top_locations, df_filtered, reveals, first_reveal, run_start >>

\* line 661
MarketContext == ImageSection("market", "4.png", "evidence")

\* lines 679-732: open("ju.png") raises when the file is missing;
\* load_and_resize_image returns None for a missing 6.png or 7.png
Evidence == ImageSection("evidence", "ju.png", "economic")

\* (mutant: the flag is set to its initial value on every run)
init_session_state_mutant(ss) == [ k \in { flag } |-> initial_flag ]

\* lines 746-747
init_session_state(ss) ==
    IF flag \in DOMAIN ss THEN ss ELSE [ k \in { flag } |-> initial_flag ]

\* lines 745-832: the flag is created on the first run that gets here, the
\* table is built from the flag and charted
EconomicScale ==
    /\ pc = "economic"
    /\ session_state' = init_session_state(session_state)
    /\ df_imports' = build_df_imports(session_state'[flag], quicksort)
    /\ page' = [page EXCEPT !.chart = df_imports']
    /\ first_reveal' = IF first_reveal = << >> /\ session_state'[flag]
                       THEN df_imports'
                       ELSE first_reveal
    /\ pc' = "buttons"
    /\ UNCHANGED << files, data_csv, quicksort, cache_data, station_selector,
                    clicked, status, df_incidents, location_totals, top_locations,
                    df_filtered, reveals, run_start >>

\* (mutant: st.rerun() is left out, the script goes on below the buttons)
st_rerun_mutant(ss) ==
    /\ pc' = "incident"
    /\ UNCHANGED << run_start, status, clicked, df_incidents, df_imports,
                    location_totals, top_locations, df_filtered, page >>

\* lines 841, 845: st.rerun() abandons the running script and starts it
\* again from the top in the session whose state is ss
st_rerun(ss) == StartRun("none", "st.rerun", ss)

\* (mutant: the else is lost, the reset button is drawn whatever the flag)
st_buttons_mutant(ss) == (IF ~ ss[flag] THEN { "reveal" } ELSE { }) \cup { "reset" }

\* lines 837-843: the st.button calls the script makes in a session whose
\* state is ss
st_buttons(ss) == IF ~ ss[flag] THEN { "reveal" } ELSE { "reset" }

\* lines 836-845: the buttons are drawn; st.button returns True for the one
\* whose click started this run, the flag is then replaced and st.rerun()
\* restarts the script
RevealButtons ==
    /\ pc = "buttons"
    /\ IF clicked \in st_buttons(session_state)
       THEN /\ session_state' = [session_state EXCEPT ![flag] =
                    IF clicked = "reveal" THEN revealed_flag ELSE reset_flag]
            /\ reveals' = IF clicked = "reveal" /\ reveals < MaxReveals
                          THEN reveals + 1
                          ELSE reveals
            /\ st_rerun(session_state')
       ELSE /\ page' = [page EXCEPT !.buttons = st_buttons(session_state)]
            /\ pc' = "incident"
            /\ UNCHANGED << session_state, reveals, status, clicked, df_incidents,
                            df_imports, location_totals, top_locations, df_filtered,
                            run_start >>
    /\ UNCHANGED << files, data_csv, quicksort, cache_data, station_selector,
                    first_reveal >>

\* lines 896-985.  An empty frame gets the warning of line 985.  On a frame
\* with rows, groupby("Location")["Count"] raises KeyError when one of the
\* two columns is missing (line 899); px.bar raises ValueError when the
\* column Category is missing (line 921), after lines 899-905 have run.
IncidentAnalysis ==
    /\ pc = "incident"
    /\ IF empty(df_incidents)
       THEN /\ page' = [page EXCEPT !.alerts = @ \cup { "no_data" }]
            /\ pc' = "cycle"
            /\ UNCHANGED << location_totals, top_locations, df_filtered, status, clicked >>
       ELSE IF ~ ({ "Location", "Count" } \subseteq columns(df_incidents))
            THEN /\ EndRun("exception", { "exception" })
                 /\ UNCHANGED << location_totals, top_locations, df_filtered >>
            ELSE /\ location_totals' = compute_location_totals(df_incidents, quicksort)
                 /\ top_locations' = compute_top_locations(location_totals')
                 /\ df_filtered' = filter_Location_isin(df_incidents, top_locations')
                 /\ IF "Category" \notin columns(df_incidents)
                    THEN EndRun("exception", { "exception" })
                    ELSE /\ page' = [page EXCEPT !.incidents =
                                  << [data |-> df_filtered',
                                      title_total |-> title_total(df_incidents, df_filtered'),
                                      category_orders |-> top_locations'] >>]
                         /\ pc' = "cycle"
                         /\ UNCHANGED << status, clicked >>
    /\ UNCHANGED << files, data_csv, quicksort, cache_data, session_state,
                    station_selector, df_incidents, df_imports, reveals, first_reveal, run_start >>

\* lines 991-1214: the rest of the page; the script ends
ViciousCycle ==
    /\ pc = "cycle"
    /\ EndRun("complete", {})
    /\ UNCHANGED << files, data_csv, quicksort, cache_data, session_state,
                    station_selector, df_incidents, df_imports, location_totals,
                    top_locations, df_filtered, reveals, first_reveal, run_start >>

-----------------------------------------------------------------------------
(* The user: every interaction with a widget on the page reruns the script *)

ClickReveal ==
    /\ pc = "idle"
    /\ "reveal" \in page.buttons
    /\ StartRun("reveal", "reveal", session_state)
    /\ UNCHANGED << files, data_csv, quicksort, cache_data, session_state,
                    station_selector, reveals, first_reveal >>

ClickReset ==
    /\ pc = "idle"
    /\ "reset" \in page.buttons
    /\ StartRun("reset", "reset", session_state)
    /\ UNCHANGED << files, data_csv, quicksort, cache_data, session_state,
                    station_selector, reveals, first_reveal >>

SelectStation ==
    /\ pc = "idle"
    /\ page.radio
    /\ \E s \in Stations \ { station_selector } : station_selector' = s
    /\ StartRun("none", "radio", session_state)
    /\ UNCHANGED << files, data_csv, quicksort, cache_data, session_state,
                    reveals, first_reveal >>

\* the Rerun command of the page menu
Rerun ==
    /\ pc = "idle"
    /\ StartRun("none", "rerun", session_state)
    /\ UNCHANGED << files, data_csv, quicksort, cache_data, session_state,
                    station_selector, reveals, first_reveal >>

Next ==
    \/ PageConfig
    \/ check_system_integrity
    \/ load_data
    \/ TitleSlide
    \/ StationMap
    \/ MarketContext
    \/ Evidence
    \/ EconomicScale
    \/ RevealButtons
    \/ IncidentAnalysis
    \/ ViciousCycle
    \/ ClickReveal
    \/ ClickReset
    \/ SelectStation
    \/ Rerun

Spec == Init /\ [][Next]_vars

-----------------------------------------------------------------------------
(* The incident analysis on its own: a run that has reached section 8 with *)
(* one of the tables of Inputs loaded *)

InitAgg ==
    /\ files = AllFiles
    /\ data_csv \in { Table(rows) : rows \in Inputs }
    /\ quicksort \in QuicksortKinds
    /\ cache_data = << data_csv.rows >>
    /\ session_state = [ k \in { flag } |-> FALSE ]
    /\ station_selector = "St Pancras International"
    /\ clicked = "none"
    /\ pc = "incident"
    /\ status = "running"
    /\ df_incidents = data_csv.rows
    /\ df_imports = build_df_imports(FALSE, quicksort)
    /\ location_totals = << >>
    /\ top_locations = << >>
    /\ df_filtered = << >>
    /\ page = [BlankPage EXCEPT !.radio = TRUE, !.chart = df_imports, !.buttons = { "reveal" }]
    /\ reveals = 0
    /\ first_reveal = << >>
    /\ run_start = [cause |-> "session", flag |-> << >>]

NextAgg == IncidentAnalysis

SpecAgg == InitAgg /\ [][NextAgg]_vars

-----------------------------------------------------------------------------
(* Properties of the reveal flag and the comparative table (Spec) *)

has_flag == flag \in DOMAIN session_state

revealed == has_flag /\ session_state[flag]

built == df_imports # << >>

Illegal(df) == { i \in 1..Len(df) : df[i].Type = "Illegal" }

Legal(df) == { i \in 1..Len(df) : df[i].Type = "Legal" }

\* C1: the reveal flag is a two-state machine.  It does not exist before the
\* first run reaches section 7 and is false when it is created; once it
\* exists it stays; it goes from false to true only where the clicked reveal
\* button is handled and from true to false only where the clicked reset
\* button is handled; a handled reveal leaves it true and a handled reset
\* leaves it false; no other step changes it.
C1_FlagStep ==
    /\ has_flag => flag \in DOMAIN session_state'
    /\ (~ has_flag /\ flag \in DOMAIN session_state') =>
          /\ pc = "economic"
          /\ session_state'[flag] = FALSE
    /\ (has_flag /\ session_state'[flag] # session_state[flag]) =>
          /\ pc = "buttons"
          /\ clicked = IF session_state'[flag] THEN "reveal" ELSE "reset"
    /\ (pc = "buttons" /\ clicked = "reveal") => session_state'[flag] = TRUE
    /\ (pc = "buttons" /\ clicked = "reset") => session_state'[flag] = FALSE

C1_RevealFlagMachine == [][C1_FlagStep]_vars

\* the flag is false again after a reveal: both edges have been taken
C1_Witness == has_flag /\ ~ session_state[flag] /\ reveals >= 1 /\ pc = "incident"

\* C2: the table built while the flag is false has exactly 10 rows, none of
\* them Illegal; the table built while it is true has exactly 11 rows: each
\* of the 10 Legal rows of import_data once, and one Illegal row, which is
\* Illicit Drugs with value 9.4.
C2_TableRows ==
    built =>
        IF revealed
        THEN /\ Len(df_imports) = 11
             /\ Cardinality(Legal(df_imports)) = 10
             /\ { df_imports[i] : i \in Legal(df_imports) } = Range(import_data)
             /\ Cardinality(Illegal(df_imports)) = 1
             /\ \A i \in Illegal(df_imports) :
                    df_imports[i] = [Commodity |-> "Illicit Drugs", Value |-> 94,
                                     Type |-> "Illegal"]
        ELSE /\ Len(df_imports) = 10
             /\ Illegal(df_imports) = {}

\* a revealed table has just been built and charted
C2_Witness == built /\ revealed /\ pc = "buttons" /\ page.chart = df_imports

\* the table of the chart on the page
shown == page.chart

\* C3: whatever reveals and resets came before, the table shown is that of
\* the first reveal when the flag is true and the 10 rows of the base table
\* when it is false; it never holds the Illegal row twice and holds every
\* Legal row of import_data exactly once, unchanged.
C3_NoDrift ==
    shown # << >> =>
        /\ revealed => first_reveal # << >> /\ shown = first_reveal
        /\ ~ revealed => Len(shown) = 10 /\ Range(shown) = Range(import_data)
        /\ Cardinality(Illegal(shown)) <= 1
        /\ \A r \in Range(import_data) :
              Cardinality({ i \in 1..Len(shown) : shown[i] = r }) = 1

\* reveal, reset, reveal: the table of the second reveal is on the page
C3_Witness ==
    shown # << >> /\ revealed /\ reveals >= 2 /\ pc = "idle" /\ status = "complete"

\* C4: for both values of the flag each row's value is at least the value
\* of the row after it.
C4_Descending ==
    \A i \in 1..(Len(df_imports) - 1) : df_imports[i].Value >= df_imports[i + 1].Value

\* the sorted table exists for the flag false and, later, for the flag true
C4_Witness == built /\ revealed /\ reveals = 1 /\ pc = "incident"

\* C5: the first row is Mineral Fuels (8.7) while the flag is false and
\* Illicit Drugs (9.4) once it is true.
C5_FirstRow ==
    built =>
        /\ df_imports[1].Commodity = IF revealed THEN "Illicit Drugs" ELSE "Mineral Fuels"
        /\ df_imports[1].Value = IF revealed THEN 94 ELSE 87

\* the chart of a completed run after the reveal starts with Illicit Drugs
C5_Witness ==
    /\ pc = "cycle"
    /\ revealed
    /\ page.chart # << >>
    /\ page.chart[1].Commodity = "Illicit Drugs"

-----------------------------------------------------------------------------
(* Properties of the incident analysis (SpecAgg) *)

input == data_csv.rows

analysed == pc = "cycle" /\ page.incidents # << >>

LocationsOf(rows) == { rows[i].Location : i \in 1..Len(rows) }

RECURSIVE TotalUpTo(_, _, _)
TotalUpTo(rows, loc, n) ==
    IF n = 0 THEN 0
    ELSE TotalUpTo(rows, loc, n - 1) + IF rows[n].Location = loc THEN rows[n].Count ELSE 0

\* the sum of Count over the records of one location
TotalOf(rows, loc) == TotalUpTo(rows, loc, Len(rows))

RECURSIVE CountUpTo(_, _)
CountUpTo(rows, n) == IF n = 0 THEN 0 ELSE CountUpTo(rows, n - 1) + rows[n].Count

Min(a, b) == IF a <= b THEN a ELSE b

\* C6: the total in the title of the incident chart is the sum of Count
\* over every record of the table that was loaded, whether or not locations
\* fall below the cutoff.
C6_GrandTotal ==
    analysed => page.incidents[1].title_total = CountUpTo(input, Len(input))

\* the cutoff has discarded records that count, and the title has the full sum
C6_Witness ==
    /\ analysed
    /\ Cardinality(LocationsOf(input)) > TopN
    /\ CountUpTo(df_filtered, Len(df_filtered)) < CountUpTo(input, Len(input))
    /\ page.incidents[1].title_total = CountUpTo(input, Len(input))

\* C7: the list of top locations has min(20, distinct locations of the
\* input) entries, no location twice.
C7_TopSize ==
    analysed =>
        /\ Len(top_locations) = Min(TopN, Cardinality(LocationsOf(input)))
        /\ Cardinality(Range(top_locations)) = Len(top_locations)

\* more than 20 locations in the input, 20 in the list
C7_Witness ==
    analysed /\ Cardinality(LocationsOf(input)) = TopN + 2 /\ Len(top_locations) = TopN

\* C8: the listed locations are in ascending order of total, and no
\* location of the input that is not listed has a larger total than a
\* listed one.
C8_TopRanked ==
    analysed =>
        /\ \A k \in 1..(Len(top_locations) - 1) :
              TotalOf(input, top_locations[k]) <= TotalOf(input, top_locations[k + 1])
        /\ \A out \in LocationsOf(input) \ Range(top_locations) :
              \A in \in Range(top_locations) : TotalOf(input, out) <= TotalOf(input, in)

\* a location is left out although a listed one has the same total, and the
\* list holds different totals
C8_Witness ==
    /\ analysed
    /\ \E out \in LocationsOf(input) \ Range(top_locations) :
          TotalOf(input, out) = TotalOf(input, top_locations[1])
    /\ TotalOf(input, top_locations[1]) < TotalOf(input, top_locations[Len(top_locations)])

\* the positions of the input whose location is listed
Kept == { i \in 1..Len(input) : input[i].Location \in Range(top_locations) }

\* the k-th of them
KthKept(k) == CHOOSE i \in Kept : Cardinality({ j \in Kept : j < i }) = k - 1

\* C9: the filtered table is the input records whose location is listed,
\* all of them and no other, in their order in the input, each unchanged.
C9_Filtered ==
    analysed =>
        /\ Len(df_filtered) = Cardinality(Kept)
        /\ \A k \in 1..Len(df_filtered) : df_filtered[k] = input[KthKept(k)]

\* a record is discarded between two kept records of one location
C9_Witness ==
    /\ analysed
    /\ \E i, j, k \in 1..Len(input) :
          i < j /\ j < k /\ i \in Kept /\ j \notin Kept /\ k \in Kept
          /\ input[i].Location = input[k].Location
    /\ Len(df_filtered) < Len(input)

\* C10: with 20 or fewer distinct locations the filtered table is the input.
C10_AllKept ==
    (analysed /\ Cardinality(LocationsOf(input)) <= TopN) => df_filtered = input

\* exactly 20 locations, one of them with two records
C10_Witness ==
    /\ analysed
    /\ Cardinality(LocationsOf(input)) = TopN
    /\ Len(input) > TopN
    /\ df_filtered = input


\* C11: the grouping yields exactly one total per distinct location of the
\* input, each the sum of Count over the records of that location, so the
\* totals add up to the sum of Count over the input.
C11_Conservation ==
    analysed =>
        /\ { location_totals[k].Location : k \in 1..Len(location_totals) } = LocationsOf(input)
        /\ Len(location_totals) = Cardinality(LocationsOf(input))
        /\ \A k \in 1..Len(location_totals) :
              location_totals[k].Count = TotalOf(input, location_totals[k].Location)
        /\ CountUpTo(location_totals, Len(location_totals)) = CountUpTo(input, Len(input))

\* a location has two records with different counts, and more locations are
\* grouped than the cutoff keeps
C11_Witness ==
    /\ analysed
    /\ Len(location_totals) > TopN
    /\ \E i, j \in 1..Len(input) :
          /\ i < j
          /\ input[i].Location = input[j].Location
          /\ input[i].Count # input[j].Count
          /\ input[j].Count > 0


-----------------------------------------------------------------------------
(* Properties of loading and of the assets (Spec) *)

data_present == "data.csv" \in files

loaded_empty == data_present /\ data_csv.readable /\ data_csv.rows = << >>

alerts == page.alerts

\* the sections of the script behind load_data
AfterLoad ==
    { "title", "station_map", "market", "evidence", "economic", "buttons",
      "incident", "cycle" }

\* C12: on a loaded table with no rows the incident section raises nothing
\* and yields nothing: no list of locations, no filtered records, no chart,
\* the warning of line 985; the run goes on to the next section, and a run
\* that has drawn the buttons always completes.
C12_EmptyGraceful ==
    loaded_empty =>
        /\ top_locations = << >> /\ df_filtered = << >> /\ page.incidents = << >>
        /\ pc = "cycle" => status = "running" /\ "no_data" \in alerts /\ "exception" \notin alerts
        /\ (pc = "idle" /\ page.buttons # { }) =>
              status = "complete" /\ "no_data" \in alerts /\ "exception" \notin alerts

\* the incident section has just run on the empty table
C12_Witness ==
    loaded_empty /\ pc = "cycle" /\ status = "running" /\ "no_data" \in alerts


load_fails == ~ data_present \/ ~ data_csv.readable

well_formed == { "Location", "Category", "Count" } \subseteq columns(data_csv.rows)

\* nothing of sections 7 and 8 has been computed or drawn
NothingAggregated ==
    /\ df_imports = << >> /\ page.chart = << >>
    /\ location_totals = << >> /\ top_locations = << >> /\ df_filtered = << >>
    /\ page.incidents = << >>

\* C14: when data.csv is missing the run stops in check_system_integrity,
\* when it cannot be read the run stops in load_data; either way an error is
\* on the page, no later section runs and nothing is aggregated.  (When
\* logo.png is missing too, the run ends even earlier, with the exception of
\* line 14 on the page.)
C14_LoadFailureStops ==
    load_fails =>
        /\ pc \notin AfterLoad
        /\ ~ data_present => pc # "load_data"
        /\ cache_data = << >>
        /\ NothingAggregated
        /\ pc = "idle" =>
              /\ status \in { "stopped", "exception" }
              /\ alerts \cap { "data_missing", "load_error", "exception" } # {}
              /\ "logo.png" \in files =>
                    /\ status = "stopped"
                    /\ IF data_present THEN "load_error" \in alerts
                                       ELSE "data_missing" \in alerts

\* the run has stopped on the missing file
C14_Witness ==
    ~ data_present /\ pc = "idle" /\ status = "stopped" /\ "data_missing" \in alerts

\* C15 (the claim as stated): with data.csv present, readable and well
\* formed, no run ends before the end of the script, whatever image is
\* missing: a run that has ended has built the comparative table and has
\* run the incident section.
C15_AssetsNeverStopRender ==
    (~ load_fails /\ well_formed /\ pc = "idle") =>
        /\ status = "complete"
        /\ page.chart # << >>
        /\ data_csv.rows # << >> => page.incidents # << >>

\* C19: a load failure and a loaded table with no rows end differently.  The
\* failure never gets past load_data and never shows the no-data warning;
\* the run stops with an error on the page.  The empty table is never
\* reported as an error and never stops the run: it is loaded, the incident
\* section shows the no-data warning and the run can complete.
C19_DistinctOutcomes ==
    /\ load_fails =>
          /\ "no_data" \notin alerts
          /\ df_incidents = << >> /\ cache_data = << >>
          /\ pc \notin AfterLoad
          /\ (pc = "idle" /\ "logo.png" \in files) =>
                status = "stopped" /\ alerts \cap { "data_missing", "load_error" } # {}
    /\ loaded_empty =>
          /\ alerts \cap { "data_missing", "load_error" } = {}
          /\ status # "stopped"
          /\ pc \in AfterLoad => cache_data = << << >> >>
          /\ (pc = "cycle" \/ (pc = "idle" /\ status = "complete")) =>
                "no_data" \in alerts /\ "exception" \notin alerts

\* the unreadable file has stopped the run in load_data
C19_Witness ==
    /\ data_present /\ ~ data_csv.readable
    /\ pc = "idle" /\ status = "stopped" /\ "load_error" \in alerts


\* a table with rows that lacks a column the script reads
malformed == ~ load_fails /\ data_csv.rows # << >> /\ ~ well_formed

\* C20 (the claim as stated): a table with a required column missing is
\* rejected by load_data: the run never gets past the load, the table is not
\* kept, nothing is computed from it, and the load error is on the page.
C20_MalformedRejectedAtLoad ==
    malformed =>
        /\ pc \notin AfterLoad
        /\ cache_data = << >>
        /\ location_totals = << >> /\ top_locations = << >> /\ df_filtered = << >>
        /\ (pc = "idle" /\ "logo.png" \in files) => "load_error" \in alerts

-----------------------------------------------------------------------------
(* Properties of the order of equal keys *)

\* the row of the table that holds commodity c
RowOf(df, c) == CHOOSE i \in 1..Len(df) : df[i].Commodity = c

FirstSeen(rows, loc) ==
    CHOOSE i \in 1..Len(rows) :
        rows[i].Location = loc /\ \A j \in 1..(i - 1) : rows[j].Location # loc

\* C18 (the claim as stated): locations of equal total are listed in the
\* order in which the input first shows them, and where the cutoff falls
\* among equal totals it follows that order too.
C18_TiesFirstSeen ==
    analysed =>
        /\ \A k, l \in 1..Len(top_locations) :
              (k < l /\ TotalOf(input, top_locations[k]) = TotalOf(input, top_locations[l])) =>
                  FirstSeen(input, top_locations[k]) < FirstSeen(input, top_locations[l])
        /\ \A out \in LocationsOf(input) \ Range(top_locations) :
              \A in \in Range(top_locations) :
                  TotalOf(input, out) = TotalOf(input, in) =>
                      FirstSeen(input, out) < FirstSeen(input, in)


-----------------------------------------------------------------------------
(* Persistence of the reveal flag (Spec) *)

\* a step that starts a run for another reason than a click on a button, or
\* that runs the initialisation of lines 746-747
C16_Step ==
    (has_flag /\ (pc = "economic" \/ (pc = "idle" /\ clicked' = "none"))) =>
        session_state' = session_state

\* C16: the flag a run finds when it starts is the flag at every later point
\* of that run, past the initialisation of section 7 and up to the end of
\* the run; a run started by a change of the station or by a plain rerun
\* starts with the flag of the run before; the initialisation leaves an
\* existing flag alone.
C16_FlagPersists ==
    /\ [](run_start.flag # << >> => has_flag /\ session_state[flag] = run_start.flag[1])
    /\ [][C16_Step]_vars

\* a run started by a change of the station found the flag true and is past
\* the initialisation with the flag still true
C16_Witness ==
    /\ run_start.cause = "radio"
    /\ run_start.flag = << TRUE >>
    /\ pc = "buttons"
    /\ revealed


-----------------------------------------------------------------------------
(* The table on display and the flag (Spec) *)

\* the script has run to its end
completed == pc = "idle" /\ status = "complete"

\* a step that replaces the value of an existing flag
flag_replaced == has_flag /\ session_state'[flag] # session_state[flag]

\* C21: the step that replaces the flag starts the script again from the
\* top on a blank page, so the table charted before the buttons is gone with
\* the run that built it; a run that ends below section 7, completed or
\* not, leaves on display the table built from the flag as it is at the end
\* of the run, and a completed run always displays one.
C21_FinalDisplay ==
    /\ [](completed => shown = build_df_imports(session_state[flag], quicksort))
    /\ []((pc = "idle" /\ shown # << >>) =>
              shown = build_df_imports(session_state[flag], quicksort))
    /\ [][flag_replaced =>
              pc' = "page_config" /\ page' = BlankPage /\ df_imports' = << >>]_vars

\* a run restarted by st.rerun() after a reveal has completed: the table on
\* display has the Illegal row, the table charted by the run that handled
\* the click did not
C21_Witness ==
    /\ completed
    /\ run_start.cause = "st.rerun"
    /\ revealed
    /\ Illegal(shown) # {}


-----------------------------------------------------------------------------
(* The buttons on offer (Spec) *)

\* the buttons the page offers
offered == page.buttons

\* the running script is below the buttons, or has ended there
below_buttons == pc \in { "incident", "cycle" } \/ completed

\* the running script was started by a click on a button
click_run == run_start.cause \in { "reveal", "reset" }

\* the step of lines 837-845 in a run started by a click
C22_Step ==
    (pc = "buttons" /\ clicked # "none") =>
        /\ clicked = IF session_state[flag] THEN "reset" ELSE "reveal"
        /\ session_state'[flag] # session_state[flag]

\* C22: a page never offers both buttons; a run that has passed line 845 or
\* has completed offers exactly one, and a button on offer is the reveal
\* button if and only if the flag is false, the reset button if and only if
\* it is true.  Hence a run started by a click finds the flag the click is
\* to replace, never ends before it has handled the click, and the step that
\* handles the click changes the flag.
C22_OneButton ==
    /\ [](Cardinality(offered) <= 1)
    /\ [](below_buttons => Cardinality(offered) = 1)
    /\ [](offered # { } =>
              has_flag /\ offered = { IF session_state[flag] THEN "reset" ELSE "reveal" })
    /\ [](click_run =>
              /\ clicked = run_start.cause
              /\ run_start.flag = << run_start.cause = "reset" >>
              /\ pc \notin { "idle", "incident", "cycle" })
    /\ [][C22_Step]_vars

\* a completed run offers the reset button, after a click on the reveal
\* button has been handled
C22_Witness ==
    /\ completed
    /\ offered = { "reset" }
    /\ revealed
    /\ reveals >= 1

====
